---------------------------- MODULE Spec2Model ----------------------------
(***************************************************************************)
(* Peak matching and scoring of similarity.py: cosine, modified_cosine,    *)
(* modified_cosine_greedy, neutral_loss and modified_neutral_loss.         *)
(*                                                                         *)
(* Number representation.  m/z values, precursor m/z and the tolerance are *)
(* integers on a common grid.  Intensities are the raw integer             *)
(* intensities; a normalized intensity is a[i]/|a|, so every weight and    *)
(* every score is kept as its numerator over |a|*|b|: weight a[i]*b[j],    *)
(* score the sum of such products.  Score 1.0 is numerator^2 = |a|^2*|b|^2.*)
(* float64 arithmetic is taken as exact on these values.  The float32      *)
(* storage of the cost matrix is the rounding F32 to a 24 bit significand; *)
(* when |a|*|b| is a power of two the numerator is the float64 value up to *)
(* an exact scaling and F32 is exactly what the store does.  A zero norm   *)
(* makes every normalized intensity NaN (0/0), carried as a flag.          *)
(* Peak indexes are 0-based as in the code; mz[i] of the code is           *)
(* s.mz[i + 1] here.                                                       *)
(***************************************************************************)
EXTENDS Integers, Sequences, FiniteSets, TLC

VARIABLES spectrum1, spectrum2, fragment_mz_tolerance,
          pc, called, score, score_nan, peak_matches,
          peak_match_idx, other_peak_index

vars == <<spectrum1, spectrum2, fragment_mz_tolerance, pc, called, score,
          score_nan, peak_matches, peak_match_idx, other_peak_index>>

inputs == <<spectrum1, spectrum2, fragment_mz_tolerance>>

---------------------------------------------------------------------------
(* Bounds of the enumerated inputs. *)
MaxPeaks == 2
MaxMz == 2
MaxIntensity == 2
MaxCharge == 2
MaxPrecursorDelta == 1
MaxTolerance == 2

(* Program constants. *)
CursorBits == 16
F32Significand == 24

---------------------------------------------------------------------------
(* Arithmetic helpers. *)
Abs(x) == IF x < 0 THEN -x ELSE x

Max2(x, y) == IF x < y THEN y ELSE x

Min2(x, y) == IF x < y THEN x ELSE y

Pow2(n) == 2 ^ n

RECURSIVE BitLength(_)
BitLength(x) == IF x = 0 THEN 0 ELSE 1 + BitLength(x \div 2)

(* Sum of f[lo..hi], halving the range. *)
RECURSIVE SumRange(_, _, _)
SumRange(f, lo, hi) ==
    IF lo > hi THEN 0
    ELSE IF lo = hi THEN f[lo]
    ELSE LET mid == (lo + hi) \div 2
         IN SumRange(f, lo, mid) + SumRange(f, mid + 1, hi)

(* np.float32(x) for x >= 0: round to nearest, ties to even, on a 24 bit
   significand. *)
F32(x) ==
    LET q == Pow2(Max2(BitLength(x) - F32Significand, 0))
        r == x % q
        down == x - r
    IN IF 2 * r < q THEN down
       ELSE IF 2 * r > q THEN down + q
       ELSE IF (down \div q) % 2 = 0 THEN down ELSE down + q

(* The uint16 element store of other_peak_index. *)
Uint16(x) == x % Pow2(CursorBits)

---------------------------------------------------------------------------
(* np.linalg.norm(intensity)^2. *)
Norm2(intensity) ==
    SumRange([k \in 1..Len(intensity) |-> intensity[k] * intensity[k]],
             1, Len(intensity))

(* intensity / norm is NaN in every element when the norm is 0 and the
   array is not empty (0/0); an empty array divides to an empty array. *)
NormalizedIsNaN(s) == Len(s.intensity) > 0 /\ Norm2(s.intensity) = 0

(* SpectrumTuple built by _cosine; intensity stays the numerator over the
   norm. *)
SpectrumTuple(s) ==
    [precursor_mz |-> s.precursor_mz,
     precursor_charge |-> s.precursor_charge,
     mz |-> s.mz,
     intensity |-> s.intensity,
     nan |-> NormalizedIsNaN(s)]

(* utils.spec_to_neutral_loss: mz[i] becomes precursor_mz - mz[i]; the
   peaks are put back in ascending m/z order, each keeping its intensity. *)
spec_to_neutral_loss(s) ==
    LET n == Len(s.mz)
    IN [precursor_mz |-> s.precursor_mz,
        precursor_charge |-> s.precursor_charge,
        mz |-> [k \in 1..n |-> s.precursor_mz - s.mz[n + 1 - k]],
        intensity |-> [k \in 1..n |-> s.intensity[n + 1 - k]]]

---------------------------------------------------------------------------
(* Mass shifts.  mass_diff[charge] = precursor_mass_diff / charge is kept
   as the exact quotient [num, den]. *)
PrecursorCharge(spec, other) == Max2(spec.precursor_charge, 1)

precursor_mass_diff(spec, other) ==
    (spec.precursor_mz - other.precursor_mz) * PrecursorCharge(spec, other)

NumShiftsAlways(spec, other, tol, allow_shift) ==
    IF allow_shift THEN 1 + PrecursorCharge(spec, other) ELSE 1

num_shifts(spec, other, tol, allow_shift) ==
    IF allow_shift /\ Abs(precursor_mass_diff(spec, other)) >= tol
    THEN 1 + PrecursorCharge(spec, other)
    ELSE 1

mass_diff(spec, other, tol, allow_shift) ==
    [c \in 1..num_shifts(spec, other, tol, allow_shift) |->
        IF c = 1 THEN [num |-> 0, den |-> 1]
        ELSE [num |-> precursor_mass_diff(spec, other), den |-> c - 1]]

(* abs(peak_mz - (other_mz + shift)) <= tol *)
InTolerance(peak_mz, other_mz, shift, tol) ==
    Abs(shift.den * (peak_mz - other_mz) - shift.num) <= shift.den * tol

(* peak_mz - tol > other_mz + shift *)
ExcessiveDiff(peak_mz, other_mz, shift, tol) ==
    shift.den * (peak_mz - tol - other_mz) > shift.num

---------------------------------------------------------------------------
(* _cosine_fast, lines 277-305: the two-pointer sweep. *)

(* Condition of the advancing while-loop at cursor c. *)
LoopContinuesEarlyEnd(c, peak_mz, shift, other, tol) ==
    /\ c < Len(other.mz) - 2
    /\ ExcessiveDiff(peak_mz, other.mz[c + 1], shift, tol)

LoopContinues(c, peak_mz, shift, other, tol) ==
    /\ c < Len(other.mz) - 1
    /\ ExcessiveDiff(peak_mz, other.mz[c + 1], shift, tol)

(* other_peak_index[cpi] after the advancing loop.  After k increments the
   cursor is Uint16(cursor + k); the loop ends at the least k at which its
   condition fails.  -1 when it fails at no k: after 2^16 increments the
   cursor is back where it started, and the loop never stops.  (Unless the
   uint16 wraps first, the loop ends when the cursor is Len(other.mz) - 1
   at the latest: those k are looked at first.) *)
Advance(cursor, peak_mz, shift, other, tol) ==
    LET Stops(k) ==
            ~LoopContinues(Uint16(cursor + k), peak_mz, shift, other, tol)
        Least(steps) ==
            CHOOSE k \in steps : Stops(k) /\ \A j \in 0..(k - 1) : ~Stops(j)
        near == 0..Min2(Pow2(CursorBits) - 1,
                        Max2(Len(other.mz) - 1 - cursor, 0))
        all == 0..(Pow2(CursorBits) - 1)
    IN IF \E k \in near : Stops(k) THEN Uint16(cursor + Least(near))
       ELSE IF \E k \in all : Stops(k) THEN Uint16(cursor + Least(all))
       ELSE -1

(* The matching while-loop: other_peak_i runs up from the cursor while it is
   inside the array and within the tolerance. *)
RECURSIVE ScanFrom(_, _, _, _, _, _)
ScanFrom(other_peak_i, peak_index, peak_mz, shift, other, tol) ==
    IF /\ other_peak_i < Len(other.mz)
       /\ InTolerance(peak_mz, other.mz[other_peak_i + 1], shift, tol)
    THEN <<<<peak_index, other_peak_i>>>>
         \o ScanFrom(other_peak_i + 1, peak_index, peak_mz, shift, other, tol)
    ELSE <<>>

(* The pairs appended for one peak of spec, over cpi = 1..num_shifts. *)
RECURSIVE MatchPeak(_, _, _, _, _, _, _)
MatchPeak(cpi, cursors, peak_index, peak_mz, shifts, other, tol) ==
    IF cpi > Len(shifts) THEN <<>>
    ELSE ScanFrom(cursors[cpi], peak_index, peak_mz, shifts[cpi], other, tol)
         \o MatchPeak(cpi + 1, cursors, peak_index, peak_mz, shifts, other,
                      tol)

(* The loop over the peaks of spec from peak_index on. *)
RECURSIVE FindMatches(_, _, _, _, _, _, _)
FindMatches(peak_index, cursors, idx, spec, other, shifts, tol) ==
    IF peak_index = Len(spec.mz)
    THEN [hang |-> FALSE, idx |-> idx, cursors |-> cursors]
    ELSE LET peak_mz == spec.mz[peak_index + 1]
             adv == [cpi \in DOMAIN shifts |->
                        Advance(cursors[cpi], peak_mz, shifts[cpi], other,
                                tol)]
         IN IF \E cpi \in DOMAIN shifts : adv[cpi] = -1
            THEN [hang |-> TRUE, idx |-> idx,
                  cursors |-> [cpi \in DOMAIN shifts |->
                                  IF adv[cpi] = -1
                                  THEN Uint16(Pow2(CursorBits))
                                  ELSE adv[cpi]]]
            ELSE FindMatches(peak_index + 1, adv,
                             idx \o MatchPeak(1, adv, peak_index, peak_mz,
                                              shifts, other, tol),
                             spec, other, shifts, tol)

---------------------------------------------------------------------------
(* _cosine_fast, lines 307-332: sort by score, accept greedily. *)

(* peak_intensity * spec_other.intensity[other_peak_i] *)
Weight(spec, other, m) ==
    spec.intensity[m[1] + 1] * other.intensity[m[2] + 1]

(* Sort key of a candidate: every NaN compares alike. *)
SortKey(spec, other, m) ==
    IF spec.nan \/ other.nan THEN 0 ELSE Weight(spec, other, m)

(* peak_i not in peaks_used and other_peak_i not in other_peaks_used *)
UnusedFirstOnly(m, peaks_used, other_peaks_used) == m[1] \notin peaks_used

Unused(m, peaks_used, other_peaks_used) ==
    m[1] \notin peaks_used /\ m[2] \notin other_peaks_used

(* The acceptance loop over the candidates in ascending score. *)
RECURSIVE AcceptAscending(_, _, _, _, _, _, _)
AcceptAscending(idx, spec, other, remaining, used, other_used, acc) ==
    IF remaining = {} THEN {acc}
    ELSE LET top == {p \in remaining : \A q \in remaining :
                        SortKey(spec, other, idx[p])
                            <= SortKey(spec, other, idx[q])}
             free == {idx[p] : p \in {q \in top :
                        Unused(idx[q], used, other_used)}}
         IN IF free = {}
            THEN AcceptAscending(idx, spec, other, remaining \ top,
                                 used, other_used, acc)
            ELSE UNION {AcceptAscending(idx, spec, other,
                            {p \in remaining : idx[p] # m},
                            used \cup {m[1]},
                            other_used \cup {m[2]},
                            [score |-> acc.score + Weight(spec, other, m),
                             peak_matches |-> Append(acc.peak_matches, m)])
                        : m \in free}

(* Every (score, peak_matches) the acceptance loop can end with.  argsort is
   numpy's default unstable sort, reversed: the candidates are visited in
   descending score, candidates of equal score in an order the sort does not
   fix.  remaining are the positions of idx not yet visited; a candidate
   whose peaks are used is passed over whenever it is visited. *)
RECURSIVE Accept(_, _, _, _, _, _, _)
Accept(idx, spec, other, remaining, peaks_used, other_peaks_used, acc) ==
    IF remaining = {} THEN {acc}
    ELSE LET top == {p \in remaining : \A q \in remaining :
                        SortKey(spec, other, idx[q])
                            <= SortKey(spec, other, idx[p])}
             free == {idx[p] : p \in {q \in top :
                        Unused(idx[q], peaks_used, other_peaks_used)}}
         IN IF free = {}
            THEN Accept(idx, spec, other, remaining \ top, peaks_used,
                        other_peaks_used, acc)
            ELSE UNION {Accept(idx, spec, other,
                               {p \in remaining : idx[p] # m},
                               peaks_used \cup {m[1]},
                               other_peaks_used \cup {m[2]},
                               [score |-> acc.score + Weight(spec, other, m),
                                peak_matches |-> Append(acc.peak_matches, m)])
                        : m \in free}

(* The results _cosine_fast can return, or the hang of its sweep. *)
_cosine_fast(spec, other, tol, allow_shift) ==
    LET shifts == mass_diff(spec, other, tol, allow_shift)
        found == FindMatches(0, [cpi \in DOMAIN shifts |-> 0], <<>>, spec,
                             other, shifts, tol)
    IN IF found.hang
       THEN {[pc |-> "hang", score |-> 0, score_nan |-> FALSE,
              peak_matches |-> <<>>, peak_match_idx |-> found.idx,
              other_peak_index |-> found.cursors]}
       ELSE {[pc |-> "returned",
              score |-> IF spec.nan \/ other.nan THEN 0 ELSE r.score,
              score_nan |-> (spec.nan \/ other.nan) /\ r.peak_matches # <<>>,
              peak_matches |-> r.peak_matches,
              peak_match_idx |-> found.idx,
              other_peak_index |-> found.cursors]
             : r \in Accept(found.idx, spec, other, DOMAIN found.idx, {}, {},
                            [score |-> 0, peak_matches |-> <<>>])}

(* _cosine, lines 214-228. *)
_cosine(s1, s2, tol, allow_shift) ==
    _cosine_fast(SpectrumTuple(s1), SpectrumTuple(s2), tol, allow_shift)

---------------------------------------------------------------------------
(* modified_cosine, lines 66-101. *)

(* cost[i, j]: the product of the normalized intensities, stored as float32,
   when some shift brings the two peaks within the tolerance; else 0. *)
Cost(s1, s2, shifts, tol, i, j) ==
    IF \E c \in DOMAIN shifts :
           InTolerance(s1.mz[i + 1], s2.mz[j + 1], shifts[c], tol)
    THEN F32(s1.intensity[i + 1] * s2.intensity[j + 1])
    ELSE 0

(* A NaN product is stored in the matrix wherever a pair is within the
   tolerance and a norm is 0. *)
CostHasNaN(s1, s2, shifts, tol) ==
    /\ NormalizedIsNaN(s1) \/ NormalizedIsNaN(s2)
    /\ \E i \in 0..(Len(s1.mz) - 1), j \in 0..(Len(s2.mz) - 1),
          c \in DOMAIN shifts :
           InTolerance(s1.mz[i + 1], s2.mz[j + 1], shifts[c], tol)

(* The assignments linear_sum_assignment chooses among: `need` pairs
   <<row, col>> in ascending row order over rows i..n-1, columns distinct
   and taken from free. *)
RECURSIVE Assignments(_, _, _, _)
Assignments(i, n, free, need) ==
    IF need = 0 THEN {<<>>}
    ELSE IF n - i < need THEN {}
    ELSE Assignments(i + 1, n, free, need)
         \cup UNION {{<<<<i, j>>>> \o rest :
                         rest \in Assignments(i + 1, n, free \ {j}, need - 1)}
                     : j \in free}

(* cost[row_ind, col_ind].sum(): a float32 accumulation in row order. *)
RECURSIVE SumF32(_, _, _, _, _, _)
SumF32(a, k, s1, s2, shifts, tol) ==
    IF k = 0 THEN 0
    ELSE F32(SumF32(a, k - 1, s1, s2, shifts, tol)
             + Cost(s1, s2, shifts, tol, a[k][1], a[k][2]))

(* The total linear_sum_assignment maximizes. *)
TotalCost(a, s1, s2, shifts, tol) ==
    SumRange([k \in 1..Len(a) |-> Cost(s1, s2, shifts, tol, a[k][1], a[k][2])],
             1, Len(a))

(* [(i, j) for i, j in zip(row_ind, col_ind) if cost[i, j] > 0] *)
RECURSIVE PositivePairs(_, _, _, _, _, _)
PositivePairs(a, k, s1, s2, shifts, tol) ==
    IF k > Len(a) THEN <<>>
    ELSE (IF Cost(s1, s2, shifts, tol, a[k][1], a[k][2]) > 0
          THEN <<a[k]>> ELSE <<>>)
         \o PositivePairs(a, k + 1, s1, s2, shifts, tol)

(* The results modified_cosine can return; linear_sum_assignment raises
   ValueError on a matrix with a NaN entry. *)
ModifiedCosineResults(s1, s2, tol) ==
    LET shifts == mass_diff(s1, s2, tol, TRUE)
        n == Len(s1.mz)
        m == Len(s2.mz)
        all == Assignments(0, n, 0..(m - 1), Min2(n, m))
        totals == {TotalCost(a, s1, s2, shifts, tol) : a \in all}
        optimum == CHOOSE t \in totals : \A u \in totals : u <= t
        best == {a \in all : TotalCost(a, s1, s2, shifts, tol) = optimum}
    IN IF CostHasNaN(s1, s2, shifts, tol)
       THEN {[pc |-> "raised", score |-> 0, score_nan |-> FALSE,
              peak_matches |-> <<>>, peak_match_idx |-> <<>>,
              other_peak_index |-> <<>>]}
       ELSE {[pc |-> "returned",
              score |-> SumF32(a, Len(a), s1, s2, shifts, tol),
              score_nan |-> FALSE,
              peak_matches |-> PositivePairs(a, 1, s1, s2, shifts, tol),
              peak_match_idx |-> <<>>,
              other_peak_index |-> <<>>] : a \in best}

---------------------------------------------------------------------------
(* The five entry points as one operator: every result the call can end
   with. *)
Variants ==
    {"cosine", "modified_cosine", "modified_cosine_greedy", "neutral_loss",
     "modified_neutral_loss"}

Results(variant, s1, s2, tol) ==
    CASE variant = "cosine" -> _cosine(s1, s2, tol, FALSE)
      [] variant = "modified_cosine" -> ModifiedCosineResults(s1, s2, tol)
      [] variant = "modified_cosine_greedy" -> _cosine(s1, s2, tol, TRUE)
      [] variant = "neutral_loss" ->
            _cosine(spec_to_neutral_loss(s1), spec_to_neutral_loss(s2), tol,
                    FALSE)
      [] variant = "modified_neutral_loss" ->
            _cosine(spec_to_neutral_loss(s1), spec_to_neutral_loss(s2), tol,
                    TRUE)

(* The end of a call: the returned pair (or the exception, or the loop that
   does not end), with the locals of _cosine_fast it was computed from. *)
Return(variant, r) ==
    /\ pc' = r.pc
    /\ score' = r.score
    /\ score_nan' = r.score_nan
    /\ peak_matches' = r.peak_matches
    /\ peak_match_idx' = r.peak_match_idx
    /\ other_peak_index' = r.other_peak_index
    /\ called' = variant
    /\ UNCHANGED inputs

cosine ==
    /\ pc = "ready"
    /\ \E r \in Results("cosine", spectrum1, spectrum2,
                       fragment_mz_tolerance) :
          Return("cosine", r)

modified_cosine ==
    /\ pc = "ready"
    /\ \E r \in Results("modified_cosine", spectrum1, spectrum2,
                       fragment_mz_tolerance) :
          Return("modified_cosine", r)

modified_cosine_greedy ==
    /\ pc = "ready"
    /\ \E r \in Results("modified_cosine_greedy", spectrum1, spectrum2,
                       fragment_mz_tolerance) :
          Return("modified_cosine_greedy", r)

neutral_loss ==
    /\ pc = "ready"
    /\ \E r \in Results("neutral_loss", spectrum1, spectrum2,
                       fragment_mz_tolerance) :
          Return("neutral_loss", r)

modified_neutral_loss ==
    /\ pc = "ready"
    /\ \E r \in Results("modified_neutral_loss", spectrum1, spectrum2,
                       fragment_mz_tolerance) :
          Return("modified_neutral_loss", r)

---------------------------------------------------------------------------
(* Inputs.  No entry point reads spectrum2.precursor_charge, and the
   precursor m/z enter only through their difference (and, for the neutral
   loss, through the difference to the peaks), so the second spectrum of the
   enumerated pairs keeps one precursor and one charge. *)
AscendingMz(n, top) ==
    {mz \in [1..n -> 0..top] : \A k \in 1..(n - 1) : mz[k] <= mz[k + 1]}

PeakLists(top) ==
    UNION {{[mz |-> mz, intensity |-> i] :
               mz \in AscendingMz(n, top), i \in [1..n -> 0..MaxIntensity]}
           : n \in 0..MaxPeaks}

MsmsSpectrum(precursor_mz, precursor_charge, peaks) ==
    [precursor_mz |-> precursor_mz, precursor_charge |-> precursor_charge,
     mz |-> peaks.mz, intensity |-> peaks.intensity]

PrecursorBase == MaxMz + MaxPrecursorDelta + 1

Spectra1 ==
    {MsmsSpectrum(p, c, l) :
        p \in (PrecursorBase - MaxPrecursorDelta)..
              (PrecursorBase + MaxPrecursorDelta),
        c \in 0..MaxCharge, l \in PeakLists(MaxMz)}

Spectra2 == {MsmsSpectrum(PrecursorBase, 1, l) : l \in PeakLists(MaxMz)}

Ready ==
    /\ pc = "ready"
    /\ called = "none"
    /\ score = 0
    /\ score_nan = FALSE
    /\ peak_matches = <<>>
    /\ peak_match_idx = <<>>
    /\ other_peak_index = <<>>

Init ==
    /\ spectrum1 \in Spectra1
    /\ spectrum2 \in Spectra2
    /\ fragment_mz_tolerance \in 1..MaxTolerance
    /\ Ready

Next ==
    \/ cosine
    \/ modified_cosine
    \/ modified_cosine_greedy
    \/ neutral_loss
    \/ modified_neutral_loss

Spec == Init /\ [][Next]_vars

(* A spectrum compared with itself, on a wider m/z range; and the worked
   example mz [100.0, 200.0], intensity [3.0, 4.0], tolerance 0.01, on the
   grid of 0.01. *)
SelfMaxMz == 6

ExampleSpectrum ==
    [precursor_mz |-> 30000, precursor_charge |-> 1,
     mz |-> <<10000, 20000>>, intensity |-> <<3, 4>>]

SelfSpectra ==
    {MsmsSpectrum(SelfMaxMz + 1, c, l) :
        c \in 0..MaxCharge, l \in PeakLists(SelfMaxMz)}

InitSelf ==
    /\ \/ spectrum1 \in SelfSpectra /\ fragment_mz_tolerance \in 1..MaxTolerance
       \/ spectrum1 = ExampleSpectrum /\ fragment_mz_tolerance = 1
    /\ spectrum2 = spectrum1
    /\ Ready

SpecSelf == InitSelf /\ [][Next]_vars

(* Pairs of one-peak spectra on the wider m/z range, each with its own
   precursor m/z and charge. *)
SinglePeakSpectra ==
    {[precursor_mz |-> p, precursor_charge |-> c, mz |-> <<mz>>,
      intensity |-> <<i>>] :
        p \in (SelfMaxMz + 1)..(SelfMaxMz + 1 + MaxPrecursorDelta),
        c \in 0..MaxCharge, mz \in 0..SelfMaxMz, i \in 1..MaxIntensity}

InitSinglePeak ==
    /\ spectrum1 \in SinglePeakSpectra
    /\ spectrum2 \in SinglePeakSpectra
    /\ fragment_mz_tolerance \in 1..MaxTolerance
    /\ Ready

SpecSinglePeak == InitSinglePeak /\ [][Next]_vars

(* Spectra of five peaks whose norm is 2^13 or 2^14: the normalized
   intensities and their products are exact in float64, and the products of
   the large intensities need more than 24 bits. *)
PrecisionIntensities ==
    {<<4097, 7093, 113, 6, 1>>, <<7093, 4097, 113, 6, 1>>,
     <<4099, 7091, 155, 26, 9>>, <<13273, 1859, 7765, 755, 5286>>}

PrecisionMz == {<<0, 10, 20, 30, 40>>, <<0, 5, 15, 25, 35>>}

PrecisionSpectra ==
    {[precursor_mz |-> 50, precursor_charge |-> 1, mz |-> mz, intensity |-> i] :
        mz \in PrecisionMz, i \in PrecisionIntensities}

InitPrecision ==
    /\ spectrum1 \in PrecisionSpectra
    /\ spectrum2 \in PrecisionSpectra
    /\ fragment_mz_tolerance \in 1..MaxTolerance
    /\ Ready

SpecPrecision == InitPrecision /\ [][Next]_vars

(* A second spectrum of 2^16 or 2^16 + 1 peaks: all but the last lie far
   below the peaks of the first spectrum. *)
LongLengths == {Pow2(CursorBits), Pow2(CursorBits) + 1}

LongTailMz == 10

(* n copies of x as a sequence. *)
RECURSIVE Repeat(_, _)
Repeat(x, n) ==
    IF n = 0 THEN <<>>
    ELSE IF n = 1 THEN <<x>>
    ELSE Repeat(x, n \div 2) \o Repeat(x, n - (n \div 2))

LongSpectra ==
    {[precursor_mz |-> 20, precursor_charge |-> 1,
      mz |-> Append(Repeat(0, n - 1), t),
      intensity |-> Repeat(1, n)] :
        n \in LongLengths, t \in LongTailMz..(LongTailMz + 1)}

ShortSpectra ==
    {[precursor_mz |-> p, precursor_charge |-> 1, mz |-> <<mz>>,
      intensity |-> <<i>>] :
        p \in 20..(20 + MaxPrecursorDelta),
        mz \in LongTailMz..(LongTailMz + 1), i \in 1..MaxIntensity}

InitLong ==
    /\ spectrum1 \in ShortSpectra
    /\ spectrum2 \in LongSpectra
    /\ fragment_mz_tolerance \in 1..MaxTolerance
    /\ Ready

NextLong ==
    \/ cosine
    \/ modified_cosine_greedy

SpecLong == InitLong /\ [][NextLong]_vars

---------------------------------------------------------------------------
(* Derived quantities used by the properties. *)
Returned == pc = "returned"

ValidInputs == Norm2(spectrum1.intensity) > 0 /\ Norm2(spectrum2.intensity) > 0

FirstIndexes == {peak_matches[k][1] : k \in DOMAIN peak_matches}

SecondIndexes == {peak_matches[k][2] : k \in DOMAIN peak_matches}

(* The spectra the matcher of the call was run on. *)
Matched1 ==
    IF called \in {"neutral_loss", "modified_neutral_loss"}
    THEN spec_to_neutral_loss(spectrum1) ELSE spectrum1

Matched2 ==
    IF called \in {"neutral_loss", "modified_neutral_loss"}
    THEN spec_to_neutral_loss(spectrum2) ELSE spectrum2

---------------------------------------------------------------------------
(* C1: in every result of every variant no index of spectrum A occurs in two
   returned pairs and no index of spectrum B occurs in two returned pairs,
   so that there are at most min(N_A, N_B) pairs, each inside both index
   ranges. *)
C1_MatchesInjective ==
    Returned =>
        /\ Cardinality(FirstIndexes) = Len(peak_matches)
        /\ Cardinality(SecondIndexes) = Len(peak_matches)
        /\ Len(peak_matches) <= Min2(Len(spectrum1.mz), Len(spectrum2.mz))
        /\ FirstIndexes \subseteq 0..(Len(spectrum1.mz) - 1)
        /\ SecondIndexes \subseteq 0..(Len(spectrum2.mz) - 1)

(* A greedy result in which one pair was recorded by two shifts and a
   candidate lost against an accepted one. *)
C1_Witness ==
    /\ Returned /\ ValidInputs
    /\ called = "modified_cosine_greedy"
    /\ \E k, l \in DOMAIN peak_match_idx :
          k # l /\ peak_match_idx[k] = peak_match_idx[l]
    /\ \E k \in DOMAIN peak_match_idx :
          \A l \in DOMAIN peak_matches : peak_matches[l] # peak_match_idx[k]
    /\ Len(peak_matches) = 2

(* The integer square root, and whether the score is at most 1.0: the
   numerator does not exceed |a|*|b|, compared without the fourth powers when
   both norms are integers. *)
RECURSIVE Isqrt(_)
Isqrt(n) ==
    IF n < 2 THEN n
    ELSE LET s == 2 * Isqrt(n \div 4)
         IN IF (s + 1) * (s + 1) <= n THEN s + 1 ELSE s

ScoreAtMostOne ==
    LET n1 == Norm2(spectrum1.intensity)
        n2 == Norm2(spectrum2.intensity)
        r1 == Isqrt(n1)
        r2 == Isqrt(n2)
    IN IF r1 * r1 = n1 /\ r2 * r2 = n2
       THEN score <= r1 * r2
       ELSE score * score <= n1 * n2

(* C2: for spectra of non-zero norm the score returned by every variant is
   a number, at least 0 and at most 1. *)
C2_ScoreBounds ==
    (Returned /\ ValidInputs) =>
        /\ ~score_nan
        /\ 0 <= score
        /\ ScoreAtMostOne

(* C5: cosine(S, S, tol) of a spectrum S of non-zero norm whose m/z values
   are more than 2*tol apart has score 1 and matches exactly the pairs
   (i, i), one for every peak of S. *)
WellSpaced(s, tol) ==
    \A k \in 1..(Len(s.mz) - 1) : s.mz[k + 1] - s.mz[k] > 2 * tol

IsExampleCall ==
    /\ Returned
    /\ called = "cosine"
    /\ spectrum1 = ExampleSpectrum
    /\ spectrum2 = ExampleSpectrum
    /\ fragment_mz_tolerance = 1

C7_ExampleAsStated ==
    IsExampleCall =>
        /\ score * score
              = Norm2(spectrum1.intensity) * Norm2(spectrum2.intensity)
        /\ peak_matches = <<<<0, 0>>, <<1, 1>>>>

(* C7 amended: for the worked example cosine returns score 1.0 and the list
   [(1, 1), (0, 0)]: the pair of the larger product 0.64 comes before the
   pair of the product 0.36. *)
C7_ExampleDescending ==
    IsExampleCall =>
        /\ ~score_nan
        /\ score * score
              = Norm2(spectrum1.intensity) * Norm2(spectrum2.intensity)
        /\ peak_matches = <<<<1, 1>>, <<0, 0>>>>

C7_Witness == IsExampleCall

---------------------------------------------------------------------------
(* C3 as stated: the score of (A, B) is the score of (B, A) and the matches
   of (A, B) are the matches of (B, A) with the two indexes of each pair
   exchanged.  The pairs are compared as sets, and against every result the
   exchanged call can return; the variants looked at are those that do not
   go through spec_to_neutral_loss. *)
Mirror(matches) == {<<matches[k][2], matches[k][1]>> : k \in DOMAIN matches}

C3_Symmetry ==
    (/\ Returned /\ ValidInputs
     /\ called \in {"cosine", "modified_cosine", "modified_cosine_greedy"}) =>
        \E r \in Results(called, spectrum2, spectrum1, fragment_mz_tolerance) :
            /\ r.pc = "returned"
            /\ r.score = score
            /\ Mirror(r.peak_matches)
                  = {peak_matches[k] : k \in DOMAIN peak_matches}

(* C4 as stated: the score of modified_cosine is at least the score of
   modified_cosine_greedy on the same inputs. *)
C4_OptimalAtLeastGreedy ==
    (Returned /\ ValidInputs /\ called = "modified_cosine") =>
        \A r \in Results("modified_cosine_greedy", spectrum1, spectrum2,
                         fragment_mz_tolerance) :
            r.pc = "returned" => r.score <= score

(* C6 as stated: when abs(precursorMzA - precursorMzB) * max(chargeA, 1) is
   below the tolerance, modified_cosine_greedy and modified_cosine return
   what cosine returns and modified_neutral_loss returns what neutral_loss
   returns. *)
Suppressed ==
    Abs(spectrum1.precursor_mz - spectrum2.precursor_mz)
        * Max2(spectrum1.precursor_charge, 1) < fragment_mz_tolerance

Counterpart(variant) ==
    CASE variant = "modified_cosine" -> "cosine"
      [] variant = "modified_cosine_greedy" -> "cosine"
      [] variant = "modified_neutral_loss" -> "neutral_loss"
      [] variant = "cosine" -> "modified_cosine_greedy"
      [] variant = "neutral_loss" -> "modified_neutral_loss"

SameAsCounterpart ==
    \E r \in Results(Counterpart(called), spectrum1, spectrum2,
                     fragment_mz_tolerance) :
        /\ r.pc = pc
        /\ r.score = score
        /\ r.score_nan = score_nan
        /\ r.peak_matches = peak_matches

C6_SuppressionAsStated ==
    (/\ Returned /\ ValidInputs /\ Suppressed
     /\ called \in {"modified_cosine", "modified_cosine_greedy",
                    "modified_neutral_loss"}) => SameAsCounterpart

(* C6 amended: when abs(precursorMzA - precursorMzB) * max(chargeA, 1) is
   below the tolerance, modified_cosine_greedy returns exactly what cosine
   can return and modified_neutral_loss exactly what neutral_loss can
   return, and conversely; modified_cosine is not among them. *)
C6_GreedySuppression ==
    (/\ pc # "ready" /\ Suppressed
     /\ called \in {"cosine", "modified_cosine_greedy", "neutral_loss",
                    "modified_neutral_loss"}) => SameAsCounterpart

C6_Witness ==
    /\ Returned /\ ValidInputs /\ Suppressed
    /\ called = "modified_neutral_loss"
    /\ spectrum1.precursor_mz # spectrum2.precursor_mz
    /\ Len(peak_matches) = 2

(* C8 as stated: when an input has a non-empty intensity array of norm 0,
   the call either raises an error or returns score 0 with no matches; it
   never returns an undefined score. *)
C8_ZeroNormGuard ==
    (/\ pc # "ready"
     /\ NormalizedIsNaN(spectrum1) \/ NormalizedIsNaN(spectrum2)) =>
        \/ pc = "raised"
        \/ Returned /\ ~score_nan /\ score = 0 /\ peak_matches = <<>>

(* C9 as stated: the greedy matcher accepts in descending weight, and of two
   conflicting candidates of equal weight the one discovered earlier is
   considered first: a pair is accepted only if every different pair of the
   same weight that shares a peak with it and was discovered before it had
   already lost against a pair accepted earlier. *)
Conflict(m, o) == m[1] = o[1] \/ m[2] = o[2]

Discovered(m) ==
    CHOOSE p \in DOMAIN peak_match_idx :
        /\ peak_match_idx[p] = m
        /\ \A q \in DOMAIN peak_match_idx :
              peak_match_idx[q] = m => p <= q

C9_EarlierTieFirst ==
    (/\ Returned /\ ValidInputs
     /\ called \in {"cosine", "modified_cosine_greedy"}) =>
        /\ \A k, l \in DOMAIN peak_matches :
              k < l => Weight(spectrum1, spectrum2, peak_matches[k])
                          >= Weight(spectrum1, spectrum2, peak_matches[l])
        /\ \A l \in DOMAIN peak_matches, p \in DOMAIN peak_match_idx :
              LET m == peak_matches[l]
                  o == peak_match_idx[p]
              IN (/\ o # m
                  /\ Conflict(o, m)
                  /\ Weight(spectrum1, spectrum2, o)
                        = Weight(spectrum1, spectrum2, m)
                  /\ Discovered(o) < Discovered(m)) =>
                     \E k \in 1..(l - 1) : Conflict(peak_matches[k], o)

(* C10 as stated: the sweep ends with every cursor inside the index range of
   B, never rewound, and has recorded exactly the pairs (i, j), once per
   shift s, with |A.mz[i] - (B.mz[j] + shift[s])| <= tolerance, in the order
   of i, then s, then j. *)
AllowShift == called \in {"modified_cosine_greedy", "modified_neutral_loss"}

RECURSIVE ExpectedFrom(_, _, _)
ExpectedFrom(i, c, shifts) ==
    IF i = Len(Matched1.mz) THEN <<>>
    ELSE IF c > Len(shifts) THEN ExpectedFrom(i + 1, 1, shifts)
    ELSE SelectSeq([j \in 1..Len(Matched2.mz) |-> <<i, j - 1>>],
                   LAMBDA m : InTolerance(Matched1.mz[i + 1],
                                          Matched2.mz[m[2] + 1], shifts[c],
                                          fragment_mz_tolerance))
         \o ExpectedFrom(i, c + 1, shifts)

ExpectedCandidates ==
    ExpectedFrom(0, 1, mass_diff(Matched1, Matched2, fragment_mz_tolerance,
                                 AllowShift))

C10_SweepExact ==
    (/\ pc # "ready"
     /\ called \in {"cosine", "modified_cosine_greedy", "neutral_loss",
                    "modified_neutral_loss"}) =>
        /\ pc # "hang"
        /\ peak_match_idx = ExpectedCandidates
        /\ \A c \in DOMAIN other_peak_index :
              other_peak_index[c] \in 0..Max2(Len(spectrum2.mz) - 1, 0)

=============================================================================
